---- MODULE Spec2Model ----
(***************************************************************************)
(* A model of gocaptcha (src/gocaptcha.go): the Captcha engine built by    *)
(* New, and CheckRequest with the helpers it calls (shouldBypass, the rate *)
(* limiter under rateMu, checkBehavior, analyzeFormContent, threshold,     *)
(* log).                                                                   *)
(*                                                                         *)
(* Time is counted in milliseconds.  Strings the code only searches for    *)
(* markers (user agent, referer, path, form texts) are sequences of        *)
(* tokens; the tables below say which marker each token contains.          *)
(***************************************************************************)
EXTENDS Integers, Sequences, FiniteSets, TLC

VARIABLES
    config,     \* the Config handed to New
    cfg,        \* c.cfg: the Config as New stores it (defaults applied)
    dbLatin,    \* c.db and the latin_only row of captcha_config
    clock,      \* the value time.Now() returned last
    rateMu,     \* c.rateMu: 0 when free, else the goroutine holding it
    rateMap,    \* c.rateMap: origin -> timestamps
    pc,         \* per goroutine: where it is in CheckRequest
    req,        \* per goroutine: the *http.Request r
    now,        \* per goroutine: the local now (line 120)
    recent,     \* per goroutine: the local recent (lines 131-137)
    result,     \* per goroutine: what CheckRequest returned and logged
    evals,      \* number of CheckRequest calls started
    admitted    \* history: the limiter ticks done, in the order of their writes

vars == <<config, cfg, dbLatin, clock, rateMu, rateMap, pc, req, now, recent,
          result, evals, admitted>>

----------------------------------------------------------------------------
(* Bounds of the model *)

\* goroutines that may run CheckRequest concurrently
NumProcs == 2
\* CheckRequest calls in a behaviour of Spec
MaxEvals == 2
\* CheckRequest calls in a behaviour of SpecRate
MaxRateEvals == 6
\* CheckRequest calls in a behaviour of SpecConc
MaxConcEvals == 2

Procs == 1..NumProcs

(* Program constants *)

DefaultRateLimitTTL == 60000
DefaultRateLimitMax == 5
DefaultBlockThreshold == -5
MinSubmitAge == 1500
MinEvents == 5
MinDuration == 600
MinMovement == 40
MinTimingStd == 10

----------------------------------------------------------------------------
(* Generic helpers *)

Min2(a, b) == IF a < b THEN a ELSE b

RECURSIVE SumSeq(_)
SumSeq(s) == IF s = <<>> THEN 0 ELSE Head(s) + SumSeq(Tail(s))

RECURSIVE Flatten(_)
Flatten(ss) == IF ss = <<>> THEN <<>> ELSE Head(ss) \o Flatten(Tail(ss))

Range(s) == {s[i] : i \in DOMAIN s}

\* all orders in which the elements of a finite set can be visited
RECURSIVE Orders(_)
Orders(S) ==
    IF S = {} THEN {<<>>}
    ELSE UNION {{<<x>> \o o : o \in Orders(S \ {x})} : x \in S}

\* strings.HasPrefix, on token sequences
HasPrefix(s, pref) ==
    /\ Len(pref) <= Len(s)
    /\ SubSeq(s, 1, Len(pref)) = pref

\* strings.HasSuffix, on token sequences
HasSuffix(s, suf) ==
    /\ Len(suf) <= Len(s)
    /\ SubSeq(s, Len(s) - Len(suf) + 1, Len(s)) = suf

----------------------------------------------------------------------------
(* Texts: a text is a sequence of tokens.  Whitespace is explicit. *)

Whitespace == {" ", "\n"}
UrlTokens == {"http://a.example", "https://b.example", "www.c.example"}
KeywordTokens == {"casino", "CASINO", "bitcoin"}
EmojiTokens == {"emoji"}
NonLatinTokens == {"cyrillic"}
PunctRuns == {"!!!!!", "-----"}
ShortPunctRuns == {"!!!!"}
PlainTokens == {"hello", "there", "friend", "Bob", "bob@example.com", "bob@example",
                "thanks", "x"}

\* utf8.RuneCountInString of one token
TokLen(t) ==
    CASE t \in Whitespace -> 1
      [] t \in EmojiTokens -> 1
      [] t = "http://a.example" -> 16
      [] t = "https://b.example" -> 17
      [] t = "www.c.example" -> 13
      [] t \in {"casino", "CASINO", "friend", "thanks"} -> 6
      [] t = "bitcoin" -> 7
      [] t = "cyrillic" -> 6
      [] t \in PunctRuns -> 5
      [] t \in ShortPunctRuns -> 4
      [] t \in {"hello", "there"} -> 5
      [] t = "Bob" -> 3
      [] t = "bob@example.com" -> 15
      [] t = "bob@example" -> 11
      [] OTHER -> 1

RuneCount(s) == SumSeq([i \in DOMAIN s |-> TokLen(s[i])])

\* strings.TrimSpace
RECURSIVE TrimLeft(_)
TrimLeft(s) == IF s # <<>> /\ Head(s) \in Whitespace THEN TrimLeft(Tail(s)) ELSE s

RECURSIVE TrimRight(_)
TrimRight(s) ==
    IF s # <<>> /\ s[Len(s)] \in Whitespace THEN TrimRight(SubSeq(s, 1, Len(s) - 1)) ELSE s

TrimSpace(s) == TrimRight(TrimLeft(s))

\* urlRe.FindAllString: the URL tokens of a text, in order
RECURSIVE FindAllUrls(_)
FindAllUrls(s) ==
    IF s = <<>> THEN <<>>
    ELSE (IF Head(s) \in UrlTokens THEN <<Head(s)>> ELSE <<>>) \o FindAllUrls(Tail(s))

\* urlRe.MatchString
MatchUrl(s) == \E i \in DOMAIN s : s[i] \in UrlTokens

\* emailRe.MatchString: one token of the shape local@domain.tld, nothing else
MatchEmail(s) == s = <<"bob@example.com">>

\* hasRepeatedPunct: five or more of the same special punctuation in a row
hasRepeatedPunct(s) == \E i \in DOMAIN s : s[i] \in PunctRuns

\* isLatinOnlyText
isLatinOnlyText(s) == \A i \in DOMAIN s : s[i] \notin NonLatinTokens

\* defaultKeywords (the ones the model's tokens can contain)
defaultKeywords == {"casino", "bitcoin"}

\* the keywords a token contains, case-insensitively ((?i) in kwRe)
TokKeywords(t) ==
    CASE t \in {"casino", "CASINO"} -> {"casino"}
      [] t = "bitcoin" -> {"bitcoin"}
      [] OTHER -> {}

\* kwRe.MatchString for the alternation of the keywords kws
MatchKeywords(s, kws) == \E i \in DOMAIN s : TokKeywords(s[i]) \cap kws # {}

\* the emoji counting loop of analyzeFormContent
EmojiCount(s) == Cardinality({i \in DOMAIN s : s[i] \in EmojiTokens})

----------------------------------------------------------------------------
(* Form fields.  r.Form maps a key to its values; FormValue gives the first. *)

NoText == <<>>

FormValue(form, k) == IF k \in DOMAIN form /\ form[k] # <<>> THEN form[k][1] ELSE NoText

\* strings.ToLower of a form key
LowerKey(k) ==
    CASE k = "Email" -> "email"
      [] k = "Name" -> "name"
      [] OTHER -> k

NameKeys == {"name", "full_name", "fullname", "username"}
WebsiteKeys == {"website", "url", "site"}
MessageKeys == {"message", "msg", "comment", "content", "bio", "body"}

EmptyFields == [name |-> NoText, email |-> NoText, website |-> NoText, message |-> NoText]

\* one iteration of the loop over r.Form (lines 357-369)
ClassifyKey(fields, form, k) ==
    LET v == FormValue(form, k)
        kl == LowerKey(k)
    IN  CASE kl \in NameKeys -> [fields EXCEPT !.name = v]
          [] kl = "email" -> [fields EXCEPT !.email = v]
          [] kl \in WebsiteKeys -> [fields EXCEPT !.website = v]
          [] kl \in MessageKeys -> [fields EXCEPT !.message = @ \o <<"\n">> \o v]
          [] OTHER -> fields

\* the loop over r.Form, visiting the keys in the order ord
RECURSIVE CollectFields(_, _, _)
CollectFields(fields, form, ord) ==
    IF ord = <<>> THEN fields
    ELSE CollectFields(ClassifyKey(fields, form, Head(ord)), form, Tail(ord))

\* mutant: the link penalty without the cap
LinkPenaltyUncapped(n) == -1 - n

\* mutant: the link penalty with the wrong sign
LinkPenaltyPositive(n) == 2 + Min2(n - 1, 2)

\* the link penalty: -2 for the first URL, -1 more per further URL, capped at -4
LinkPenalty(n) == -2 - Min2(n - 1, 2)

\* the emoji penalty and its reason (lines 412-418)
EmojiPenalty(n) == (IF n >= 5 THEN -1 ELSE 0) + (IF n >= 12 THEN -1 ELSE 0)

\* strconv.Itoa for the counts that appear in reason tags
Itoa(n) == ToString(n)

\* analyzeFormContent: the checks in order, each a record [d, rs]
ContentChecks(form, ord, kws) ==
    LET fields == CollectFields(EmptyFields, form, ord)
        msg == TrimSpace(fields.message)
        name == TrimSpace(fields.name)
        email == TrimSpace(fields.email)
        website == TrimSpace(fields.website)
        n == Len(FindAllUrls(msg))
        e == EmojiCount(msg)
        None == [d |-> 0, rs |-> <<>>]
    IN  << IF n > 0 THEN [d |-> LinkPenalty(n), rs |-> <<"links_in_message:" \o Itoa(n)>>]
                    ELSE None,
           IF kws # {} /\ MatchKeywords(msg, kws)
               THEN [d |-> -3, rs |-> <<"spam_keywords">>] ELSE None,
           IF e >= 5 THEN [d |-> EmojiPenalty(e), rs |-> <<"emoji_overuse:" \o Itoa(e)>>]
                     ELSE None,
           IF hasRepeatedPunct(msg) THEN [d |-> -1, rs |-> <<"repeated_punct">>] ELSE None,
           IF name # NoText /\ MatchUrl(name)
               THEN [d |-> -2, rs |-> <<"name_contains_url">>] ELSE None,
           IF website # NoText /\ ~MatchUrl(website)
               THEN [d |-> -1, rs |-> <<"website_invalid">>] ELSE None,
           IF email # NoText /\ ~MatchEmail(email)
               THEN [d |-> -1, rs |-> <<"email_invalid">>] ELSE None,
           IF RuneCount(msg) < 15 /\ n > 0
               THEN [d |-> -1, rs |-> <<"short_msg_with_link">>] ELSE None >>

\* analyzeFormContent: (delta, reasons)
analyzeFormContent(form, ord, kws) ==
    LET cs == ContentChecks(form, ord, kws)
    IN  [d |-> SumSeq([i \in DOMAIN cs |-> cs[i].d]),
         rs |-> Flatten([i \in DOMAIN cs |-> cs[i].rs])]

----------------------------------------------------------------------------
(* checkBehavior.  A trace is the decoded form of behavior_data:           *)
(* kind "empty"    the field is empty;                                     *)
(* kind "badb64"   base64 decoding fails or gives no bytes;                *)
(* kind "badjson"  the bytes are not a JSON array of objects;              *)
(* kind "events"   a JSON array; an event with pos = FALSE is a key or     *)
(*                 click event, which carries no x and no y.               *)

\* json.Unmarshal into Event{X, Y, T}: a missing x or y is left at zero
DecodeEvent(e) == [X |-> IF e.pos THEN e.x ELSE 0, Y |-> IF e.pos THEN e.y ELSE 0, T |-> e.t]

Abs(n) == IF n < 0 THEN -n ELSE n

\* math.Hypot for the segments of the model's traces, whose lengths are integers
Hypot(dx, dy) ==
    LET sq == dx * dx + dy * dy
    IN  CHOOSE k \in 0..(Abs(dx) + Abs(dy)) : k * k <= sq /\ sq < (k + 1) * (k + 1)

\* lines 321-329: totalDist, over every pair of consecutive decoded events
TotalDist(events) ==
    SumSeq([i \in 1..(Len(events) - 1) |->
                Hypot(events[i + 1].X - events[i].X, events[i + 1].Y - events[i].Y)])

\* mutant: the duration is checked before the order of the timestamps
checkBehaviorDurationFirst(b) ==
    LET events == [i \in DOMAIN b.events |-> DecodeEvent(b.events[i])]
        n == Len(events)
        Fail(why) == [ok |-> FALSE, why |-> why]
    IN  CASE b.kind = "empty" -> Fail("missing_behavior")
          [] b.kind = "badb64" -> Fail("behavior_decode_error")
          [] b.kind = "badjson" \/ (b.kind = "events" /\ n < MinEvents) ->
                Fail("behavior_not_enough_events")
          [] OTHER ->
                IF events[n].T - events[1].T < MinDuration THEN Fail("behavior_too_short")
                ELSE IF \E i \in 1..(n - 1) : events[i + 1].T <= events[i].T
                    THEN Fail("behavior_non_monotonic_time")
                ELSE IF TotalDist(events) < MinMovement THEN Fail("behavior_low_movement")
                ELSE [ok |-> TRUE, why |-> ""]

checkBehavior(b) ==
    LET events == [i \in DOMAIN b.events |-> DecodeEvent(b.events[i])]
        n == Len(events)
        steps == 1..(n - 1)
        dur == events[n].T - events[1].T
        totalDist == TotalDist(events)
        deltas == [i \in steps |-> events[i + 1].T - events[i].T]
        sum == SumSeq(deltas)
        sumsq == SumSeq([i \in steps |-> deltas[i] * deltas[i]])
        m == n - 1
        Fail(why) == [ok |-> FALSE, why |-> why]
    IN  CASE b.kind = "empty" -> Fail("missing_behavior")
          [] b.kind = "badb64" -> Fail("behavior_decode_error")
          [] b.kind = "badjson" \/ (b.kind = "events" /\ n < MinEvents) ->
                Fail("behavior_not_enough_events")
          [] OTHER ->
                IF \E i \in steps : events[i + 1].T <= events[i].T
                    THEN Fail("behavior_non_monotonic_time")
                ELSE IF dur < MinDuration THEN Fail("behavior_too_short")
                ELSE IF totalDist < MinMovement THEN Fail("behavior_low_movement")
                \* mean > 0 and std < 10, with std^2 = sumsq/m - (sum/m)^2
                ELSE IF sum > 0 /\ m * sumsq - sum * sum < MinTimingStd * MinTimingStd * m * m
                    THEN Fail("behavior_low_timing_variance")
                ELSE [ok |-> TRUE, why |-> ""]

----------------------------------------------------------------------------
(* Markers of user agents, paths and referers *)

\* the case-sensitive markers of line 204-212 a user-agent token contains
UaMarkers(t) ==
    CASE t = "HeadlessChrome/120" -> {"HeadlessChrome"}
      [] t = "curl/8.0" -> {"curl"}
      [] t = "Go-http-client/1.1" -> {"Go-http-client"}
      [] OTHER -> {}

\* the markers strings.ToLower of a user-agent token contains
UaLowerMarkers(t) ==
    CASE t \in {"Mozilla/5.0", "MOZILLA/5.0"} -> {"mozilla"}
      [] t \in {"Chrome/120", "HeadlessChrome/120"} -> {"chrome"}
      [] OTHER -> {}

ScriptedMarkers == {"HeadlessChrome", "PhantomJS", "SlimerJS", "Electron", "Puppeteer",
                    "Go-http-client", "curl", "python-requests"}

UaContains(ua, marker) == \E i \in DOMAIN ua : marker \in UaMarkers(ua[i])
UaLowerContains(ua, marker) == \E i \in DOMAIN ua : marker \in UaLowerMarkers(ua[i])

\* strings.ToLower of a path token
LowerPath(t) ==
    CASE t = "/OAuth" -> "/oauth"
      [] OTHER -> t

\* the markers of line 567 a lower-cased path contains
PathHasOAuthMarker(path) ==
    LET lower == [i \in DOMAIN path |-> LowerPath(path[i])]
    IN  \/ \E i \in DOMAIN lower : lower[i] \in {"/oauth", "/oauth2", "/auth/"}
        \/ HasSuffix(lower, <<"/callback">>)

\* the identity-provider markers of line 570 a lower-cased referer contains
RefHasProvider(ref) ==
    \E i \in DOMAIN ref : ref[i] \in {"accounts.google.com", "Accounts.Google.com",
                                      "github.com/login", "github.com/session"}

\* strings.Contains(ref, r.Host)
RefContainsHost(ref, host) == \E i \in DOMAIN ref : ref[i] = host

----------------------------------------------------------------------------
(* The engine *)

\* New: the defaults of lines 53-61
New(c) ==
    [c EXCEPT !.RateLimitTTL = IF @ = 0 THEN DefaultRateLimitTTL ELSE @,
              !.RateLimitMax = IF @ = 0 THEN DefaultRateLimitMax ELSE @,
              !.BlockThreshold = IF @ = 0 THEN DefaultBlockThreshold ELSE @]

\* threshold
threshold(c) == IF c.BlockThreshold = 0 THEN DefaultBlockThreshold ELSE c.BlockThreshold

\* getConfigBool against the value v of the row ("nodb": c.db is nil,
\* "norow": the query finds no row)
getConfigBool(v, def) ==
    IF v \in {"nodb", "norow"} THEN def ELSE v \in {"1", "true", "yes", "on"}

\* getSpamKeywords: the seeded defaults, with or without a database
getSpamKeywords == defaultKeywords

\* net.SplitHostPort(r.RemoteAddr), falling back to RemoteAddr itself:
\* an address is <<host, port>> or, without a port, <<host>>
RemoteIP(addr) == addr[1]

\* shouldBypass; r.custom is what c.cfg.SkipIf does on r
shouldBypass(c, r) ==
    LET code == TrimSpace(r.code)
        state == TrimSpace(r.state)
        Yes(why) == [ok |-> TRUE, why |-> why]
        No == [ok |-> FALSE, why |-> ""]
    IN  IF c.SkipIf # "nil" /\ r.custom = "panic" THEN No   \* recovered: zero results
        ELSE IF c.SkipIf # "nil" /\ r.custom = "true" THEN Yes("bypass:custom")
        ELSE IF \E i \in DOMAIN c.SkipPaths :
                    c.SkipPaths[i] # <<>> /\ HasPrefix(r.path, c.SkipPaths[i])
            THEN Yes("bypass:skip_path")
        ELSE IF r.method = "GET" /\ code # NoText /\ state # NoText
            THEN Yes("bypass:oauth_flow")
        ELSE IF r.method = "GET" /\ PathHasOAuthMarker(r.path)
                    /\ (code # NoText \/ state # NoText)
            THEN Yes("bypass:oauth_flow")
        ELSE IF r.method = "GET" /\ RefHasProvider(r.ref) THEN Yes("bypass:oauth_referer")
        ELSE No

\* the pruning loop of lines 132-136
RECURSIVE Prune(_, _, _)
Prune(hits, t, ttl) ==
    IF hits = <<>> THEN <<>>
    ELSE (IF t - Head(hits) < ttl THEN <<Head(hits)>> ELSE <<>>) \o Prune(Tail(hits), t, ttl)

\* lines 131-137: recent
Recent(hits, t, ttl) == Append(Prune(hits, t, ttl), t)

\* mutant: the honeypot test reads another key than c.fieldName
HoneypotWrongKey(r) == TrimSpace(FormValue(r.form, "extra")) # NoText

\* the honeypot test of line 146
HoneypotFilled(r) == TrimSpace(FormValue(r.form, "extra_decoy")) # NoText

\* formIsLatinOnly: every value of every key but the decoy
formIsLatinOnly(r) ==
    \A k \in DOMAIN r.form \ {"extra_decoy"} :
        \A i \in DOMAIN r.form[k] : isLatinOnlyText(r.form[k][i])

----------------------------------------------------------------------------
(* The scoring steps of CheckRequest, each a record [d, rs]: the change of *)
(* score and the reasons appended.                                         *)

NoFinding == [d |-> 0, rs |-> <<>>]
Finding(d, tag) == [d |-> d, rs |-> <<tag>>]

\* mutant: the request that reaches the limit is penalized already
CheckRateAtLimit(c, n) ==
    IF n >= c.RateLimitMax THEN Finding(-3, "rate_limit_exceeded") ELSE NoFinding

\* lines 140-143
CheckRate(c, n) == IF n > c.RateLimitMax THEN Finding(-3, "rate_limit_exceeded") ELSE NoFinding

\* mutant: a submission exactly MinSubmitAge old counts as too fast
CheckTimestampStrict(r, t) ==
    IF r.ts.kind = "none" THEN Finding(-3, "missing_ts")
    ELSE IF r.ts.kind = "garbage" \/ t - r.ts.val <= MinSubmitAge
        THEN Finding(-3, "too_fast_submit")
    ELSE NoFinding

\* lines 162-170; a ts of kind "garbage" is one strconv.ParseInt rejects
CheckTimestamp(r, t) ==
    IF r.ts.kind = "none" THEN Finding(-3, "missing_ts")
    ELSE IF r.ts.kind = "garbage" \/ t - r.ts.val < MinSubmitAge
        THEN Finding(-3, "too_fast_submit")
    ELSE NoFinding

\* lines 173-176
CheckToken(r) == IF r.jsToken # "set_by_js" THEN Finding(-2, "missing_js_token") ELSE NoFinding

\* lines 179-186
CheckBehaviorStep(r) ==
    LET b == checkBehavior(r.behavior)
    IN  IF b.ok THEN NoFinding
        ELSE Finding(-3, IF b.why # "" THEN "behavior:" \o b.why ELSE "behavior_invalid")

\* lines 189-193
CheckUA(r) ==
    IF r.ua = <<>> \/ ~UaLowerContains(r.ua, "mozilla")
        THEN Finding(-2, "ua_suspicious") ELSE NoFinding

\* lines 194-201
CheckReferer(r) ==
    IF r.ref = <<>> THEN Finding(-1, "missing_referer")
    ELSE IF r.host # "" /\ ~RefContainsHost(r.ref, r.host)
        THEN Finding(-1, "cross_site_referer")
    ELSE NoFinding

\* mutant: only the listed markers count, the empty User-Agent does not
CheckHeadlessMarkersOnly(r) ==
    IF \E m \in ScriptedMarkers : UaContains(r.ua, m)
        THEN Finding(-4, "headless_or_scripted_ua") ELSE NoFinding

\* lines 204-215
CheckHeadless(r) ==
    IF r.ua = <<>> \/ \E m \in ScriptedMarkers : UaContains(r.ua, m)
        THEN Finding(-4, "headless_or_scripted_ua") ELSE NoFinding

\* lines 222-225
CheckAccept(r) ==
    IF r.accept = "" /\ r.al = "" THEN Finding(-1, "missing_accept_and_language")
    ELSE NoFinding

\* lines 226-230
CheckSecFetch(r) ==
    IF UaLowerContains(r.ua, "chrome") /\ r.sfs = "" /\ r.sfm = ""
        THEN Finding(-1, "missing_sec_fetch_headers") ELSE NoFinding

\* lines 233-240: r.Cookie fails only with http.ErrNoCookie
CheckCookie(r) ==
    IF ~r.cookie.has THEN Finding(-3, "missing_js_cookie")
    ELSE IF r.cookie.val # "enabled" THEN Finding(-2, "bad_js_cookie")
    ELSE NoFinding

\* lines 243-246, the form keys visited in the order ord
CheckContent(r, ord) ==
    LET a == analyzeFormContent(r.form, ord, getSpamKeywords)
    IN  IF a.d # 0 THEN a ELSE NoFinding

\* mutant: the token is checked before the timestamp
SoftStepsTokenFirst(c, r, t, n, ord) ==
    << CheckRate(c, n), CheckToken(r), CheckTimestamp(r, t), CheckBehaviorStep(r),
       CheckUA(r), CheckReferer(r), CheckHeadless(r), CheckAccept(r), CheckSecFetch(r),
       CheckCookie(r), CheckContent(r, ord) >>

\* mutant: both user-agent checks come before the referer check
SoftStepsHeadlessFirst(c, r, t, n, ord) ==
    << CheckRate(c, n), CheckTimestamp(r, t), CheckToken(r), CheckBehaviorStep(r),
       CheckUA(r), CheckHeadless(r), CheckReferer(r), CheckAccept(r), CheckSecFetch(r),
       CheckCookie(r), CheckContent(r, ord) >>

\* the steps of the soft path, in the order of the code (lines 128-246); n is
\* len(recent)
SoftSteps(c, r, t, n, ord) ==
    << CheckRate(c, n), CheckTimestamp(r, t), CheckToken(r), CheckBehaviorStep(r),
       CheckUA(r), CheckReferer(r), CheckHeadless(r), CheckAccept(r), CheckSecFetch(r),
       CheckCookie(r), CheckContent(r, ord) >>

\* the score and the reasons after the first k of the steps
ScoreAfter(steps, k) == SumSeq([i \in 1..k |-> steps[i].d])
ReasonsAfter(steps, k) == Flatten([i \in 1..k |-> steps[i].rs])

\* one call of c.log
LogCall(ip, ua, score, reasons) == [ip |-> ip, ua |-> ua, score |-> score, reasons |-> reasons]

\* mutant: a score equal to the threshold passes
VerdictStrict(c, score) == score < threshold(c)

\* line 248
Verdict(c, score) == score <= threshold(c)

\* lines 140-251: CheckRequest from the rate penalty to its return
Outcome(c, latin, r, t, n, ord) ==
    LET ip == RemoteIP(r.remoteAddr)
        rate == CheckRate(c, n)
        steps == SoftSteps(c, r, t, n, ord)
        score == ScoreAfter(steps, Len(steps))
        reasons == ReasonsAfter(steps, Len(steps))
        Stop(tag) == [blocked |-> TRUE, score |-> rate.d, reasons |-> Append(rate.rs, tag),
                      logs |-> <<LogCall(ip, r.ua, rate.d, Append(rate.rs, tag))>>,
                      via |-> tag]
    IN  IF HoneypotFilled(r) THEN Stop("hidden_field_filled")
        ELSE IF getConfigBool(latin, FALSE) /\ ~formIsLatinOnly(r) THEN Stop("non_latin_detected")
        ELSE [blocked |-> Verdict(c, score), score |-> score, reasons |-> reasons,
              logs |-> <<LogCall(ip, r.ua, score, reasons)>>, via |-> "soft"]

----------------------------------------------------------------------------
(* Configurations *)

BaseConfig ==
    [RateLimitTTL |-> 3, RateLimitMax |-> 1, BlockThreshold |-> 0,
     SkipPaths |-> << <<>>, <<"/skip">> >>, SkipIf |-> "set", EnableStorage |-> FALSE]

Configs ==
    {BaseConfig}
    \cup {[BaseConfig EXCEPT !.BlockThreshold = v] : v \in {-1, -3, 2}}
    \cup {[BaseConfig EXCEPT !.RateLimitMax = v] : v \in {0, 2}}
    \cup {[BaseConfig EXCEPT !.RateLimitTTL = 0]}
    \cup {[BaseConfig EXCEPT !.SkipPaths = <<>>]}
    \cup {[BaseConfig EXCEPT !.SkipIf = "nil"]}
    \cup {[BaseConfig EXCEPT !.EnableStorage = TRUE]}

RateConfigs == {[BaseConfig EXCEPT !.RateLimitMax = v] : v \in {0, 1, 2}}

ConcConfigs == {[BaseConfig EXCEPT !.RateLimitMax = 2]}

----------------------------------------------------------------------------
(* Requests *)

IPs == {"a", "b"}

ValidTrace ==
    [kind |-> "events",
     events |-> << [x |-> 0, y |-> 0, t |-> 0, pos |-> TRUE],
                   [x |-> 30, y |-> 40, t |-> 100, pos |-> TRUE],
                   [x |-> 30, y |-> 40, t |-> 150, pos |-> TRUE],
                   [x |-> 30, y |-> 40, t |-> 400, pos |-> TRUE],
                   [x |-> 30, y |-> 40, t |-> 700, pos |-> TRUE] >>]

PeriodicTrace ==
    [kind |-> "events",
     events |-> [i \in 1..5 |-> [x |-> 20 * i, y |-> 0, t |-> 200 * i, pos |-> TRUE]]]

NoTrace == [kind |-> "empty", events |-> <<>>]

Traces == {NoTrace, ValidTrace, PeriodicTrace, [kind |-> "badb64", events |-> <<>>]}

CleanForm ==
    ("name" :> << <<"Bob">> >>)
    @@ ("email" :> << <<"bob@example.com">> >>)
    @@ ("message" :> << <<"hello", " ", "there", " ", "friend">> >>)

NoForm == [k \in {} |-> <<>>]

Forms ==
    { CleanForm, NoForm,
      ("message" :> << <<"www.c.example">> >>),
      ("message" :> << <<"http://a.example", " ", "https://b.example", "\n",
                         "www.c.example", " ", "thanks">> >>),
      ("message" :> << <<"hello", " ", "CASINO", " ", "friend", " ", "there">> >>),
      ("message" :> << <<"hello", " ", "there", " ", "friend">> >>)
          @@ ("msg" :> << <<"-----">> >>),
      ("name" :> << <<"Bob">> >>) @@ ("username" :> << <<"http://a.example">> >>),
      ("Email" :> << <<"bob@example">> >>) @@ ("website" :> << <<"x">> >>),
      ("message" :> << <<"hello", " ", "cyrillic", " ", "friend">> >>) }

Decoys == { << <<"x">> >>, << <<" ">> >>, << <<" ", "x", " ">> >>, << <<>>, <<"x">> >> }

\* the request every check passes, when evaluated at time t
CleanRequest(t) ==
    [formErr |-> FALSE, remoteAddr |-> <<"a", "1">>, method |-> "POST", path |-> <<"/form">>,
     code |-> NoText, state |-> NoText, custom |-> "false",
     ua |-> <<"Mozilla/5.0", "Chrome/120">>, ref |-> <<"https://", "h", "/form">>, host |-> "h",
     ts |-> [kind |-> "num", val |-> t - MinSubmitAge], jsToken |-> "set_by_js",
     behavior |-> ValidTrace, accept |-> "text/html", al |-> "en",
     sfs |-> "same-origin", sfm |-> "navigate",
     cookie |-> [has |-> TRUE, val |-> "enabled"], form |-> CleanForm]

\* the request of a client that runs no script and sends no headers
BareRequest(t) ==
    [CleanRequest(t) EXCEPT !.ua = <<>>, !.ref = <<>>, !.ts = [kind |-> "none", val |-> 0],
        !.jsToken = "", !.behavior = NoTrace, !.accept = "", !.al = "", !.sfs = "",
        !.sfm = "", !.cookie = [has |-> FALSE, val |-> ""], !.form = NoForm]

\* the requests that differ from r in one attribute
Variants(r, t) ==
    {[r EXCEPT !.formErr = TRUE], [r EXCEPT !.remoteAddr = <<"a">>],
     [r EXCEPT !.method = "GET"], [r EXCEPT !.path = <<"/skip", "/x">>],
     [r EXCEPT !.path = <<"/OAuth", "/callback">>], [r EXCEPT !.code = <<"c">>],
     [r EXCEPT !.state = <<"s">>], [r EXCEPT !.host = ""]}
    \cup {[r EXCEPT !.custom = v] : v \in {"true", "panic"}}
    \cup {[r EXCEPT !.ua = v] : v \in {<<>>, <<"MOZILLA/5.0">>, <<"curl/8.0">>,
                                      <<"Mozilla/5.0", "Chrome/120">>,
                                      <<"Mozilla/5.0", "HeadlessChrome/120">>}}
    \cup {[r EXCEPT !.ref = v] : v \in {<<>>, <<"https://", "h", "/form">>,
                                       <<"https://", "other.example">>,
                                       <<"https://", "accounts.google.com">>}}
    \cup {[r EXCEPT !.ts = v] : v \in {[kind |-> "none", val |-> 0],
                                      [kind |-> "garbage", val |-> 0],
                                      [kind |-> "num", val |-> t - MinSubmitAge],
                                      [kind |-> "num", val |-> t - MinSubmitAge + 1]}}
    \cup {[r EXCEPT !.jsToken = v] : v \in {"", "set_by_js"}}
    \cup {[r EXCEPT !.behavior = v] : v \in Traces}
    \cup {[r EXCEPT !.accept = v] : v \in {"", "text/html"}}
    \cup {[r EXCEPT !.al = v] : v \in {"", "en"}}
    \cup {[r EXCEPT !.sfs = v, !.sfm = v] : v \in {"", "same-origin"}}
    \cup {[r EXCEPT !.cookie = v] : v \in {[has |-> FALSE, val |-> ""],
                                          [has |-> TRUE, val |-> "enabled"],
                                          [has |-> TRUE, val |-> "disabled"]}}
    \cup {[r EXCEPT !.form = v] : v \in Forms}
    \cup {[r EXCEPT !.form = ("extra_decoy" :> v) @@ @] : v \in Decoys}

\* the request of a browser whose page lacks the script: no ts, no token, no
\* behavior data, no cookie, everything else clean
ScriptlessRequest(t) ==
    [CleanRequest(t) EXCEPT !.ts = [kind |-> "none", val |-> 0], !.jsToken = "",
        !.behavior = NoTrace, !.cookie = [has |-> FALSE, val |-> ""]]

\* the request of a form filler that posts to a skipped path: clean, the decoy
\* field filled too
FilledOnSkipPath(t) ==
    [CleanRequest(t) EXCEPT !.path = <<"/skip", "/x">>,
                            !.form = ("extra_decoy" :> << <<"x">> >>) @@ @]

Near1(t) == Variants(CleanRequest(t), t) \cup Variants(BareRequest(t), t)
Near2(t) ==
    UNION {Variants(r, t) : r \in Near1(t)}
    \cup Variants(ScriptlessRequest(t), t) \cup Variants(FilledOnSkipPath(t), t)

\* the requests of Spec: with the base configuration, those two attributes away
\* from the clean or the bare request; with another configuration, one away
Requests(t, c) == IF c = BaseConfig THEN Near2(t) ELSE Near1(t)

\* the requests of SpecRate and SpecConc: a clean request with a one-field form,
\* from each origin, and the same with the decoy field filled
ThinRequest(t, ip) ==
    [CleanRequest(t) EXCEPT !.remoteAddr = <<ip, "1">>,
                            !.form = ("message" :> << <<"hello", " ", "there", " ", "friend">> >>)]

RateRequests(t) ==
    {ThinRequest(t, "a"),
     [ThinRequest(t, "a") EXCEPT !.form = ("extra_decoy" :> << <<"x">> >>)]}

ConcRequests(t) ==
    {ThinRequest(t, ip) : ip \in IPs}
    \cup {[ThinRequest(t, "a") EXCEPT !.path = <<"/skip", "/x">>]}

\* the time that may pass between two readings of time.Now()
Deltas(c) == {0, c.RateLimitTTL}
RateDeltas(c) == {0, c.RateLimitTTL - 1, c.RateLimitTTL, c.RateLimitTTL + 1}

----------------------------------------------------------------------------
(* State *)

NoReq == [formErr |-> FALSE]
NoResult == [via |-> "none"]

InitWith(cfgs) ==
    /\ config \in cfgs
    /\ cfg = New(config)
    /\ dbLatin \in IF config.EnableStorage THEN {"1", "0"} ELSE {"nodb"}
    /\ clock = 0
    /\ rateMu = 0
    /\ rateMap = [ip \in IPs |-> <<>>]
    /\ pc = [p \in Procs |-> "idle"]
    /\ req = [p \in Procs |-> NoReq]
    /\ now = [p \in Procs |-> 0]
    /\ recent = [p \in Procs |-> <<>>]
    /\ result = [p \in Procs |-> NoResult]
    /\ evals = 0
    /\ admitted = <<>>

\* lines 106-126: ParseForm, the reading of now, the bypass; d is the time passed
\* since the last reading of the clock
Begin(p, r, d) ==
    LET ip == RemoteIP(r.remoteAddr)
        by == shouldBypass(cfg, r)
    IN  /\ pc[p] = "idle"
        /\ clock' = clock + d
        /\ evals' = evals + 1
        /\ req' = [req EXCEPT ![p] = r]
        /\ now' = [now EXCEPT ![p] = clock + d]
        /\ IF r.formErr
             THEN /\ result' = [result EXCEPT ![p] =
                        [blocked |-> TRUE, score |-> 0, reasons |-> <<>>, logs |-> <<>>,
                         via |-> "malformed"]]
                  /\ pc' = [pc EXCEPT ![p] = "done"]
           ELSE IF by.ok
             THEN /\ result' = [result EXCEPT ![p] =
                        [blocked |-> FALSE, score |-> 0, reasons |-> <<>>,
                         logs |-> <<LogCall(ip, r.ua, 0, <<by.why>>)>>, via |-> "bypass"]]
                  /\ pc' = [pc EXCEPT ![p] = "done"]
           ELSE /\ result' = result
                /\ pc' = [pc EXCEPT ![p] = "lock"]
        /\ UNCHANGED <<config, cfg, dbLatin, rateMu, rateMap, recent, admitted>>

\* mutant: the limiter runs without the mutex
MayLockAlways(p) == TRUE

\* c.rateMu.Lock() may be entered
MayLock(p) == rateMu = 0

\* lines 129-137: Lock, read the hits, prune, append now
Acquire(p) ==
    /\ pc[p] = "lock"
    /\ MayLock(p)
    /\ rateMu' = p
    /\ recent' = [recent EXCEPT ![p] =
            Recent(rateMap[RemoteIP(req[p].remoteAddr)], now[p], cfg.RateLimitTTL)]
    /\ pc' = [pc EXCEPT ![p] = "locked"]
    /\ UNCHANGED <<config, cfg, dbLatin, clock, rateMap, req, now, result, evals, admitted>>

\* mutant: the list is stored and the mutex is kept
ReleaseKeepsLock(p) ==
    LET ip == RemoteIP(req[p].remoteAddr)
    IN  /\ pc[p] = "locked"
        /\ rateMap' = [rateMap EXCEPT ![ip] = recent[p]]
        /\ admitted' = Append(admitted, [ip |-> ip, t |-> now[p], n |-> Len(recent[p])])
        /\ pc' = [pc EXCEPT ![p] = "score"]
        /\ UNCHANGED <<config, cfg, dbLatin, clock, rateMu, req, now, recent, result, evals>>

\* mutant: the list is stored under every origin
ReleaseEveryOrigin(p) ==
    LET ip == RemoteIP(req[p].remoteAddr)
    IN  /\ pc[p] = "locked"
        /\ rateMap' = [o \in IPs |-> recent[p]]
        /\ rateMu' = 0
        /\ admitted' = Append(admitted, [ip |-> ip, t |-> now[p], n |-> Len(recent[p])])
        /\ pc' = [pc EXCEPT ![p] = "score"]
        /\ UNCHANGED <<config, cfg, dbLatin, clock, req, now, recent, result, evals>>

\* lines 138-139: store recent, Unlock
Release(p) ==
    LET ip == RemoteIP(req[p].remoteAddr)
    IN  /\ pc[p] = "locked"
        /\ rateMap' = [rateMap EXCEPT ![ip] = recent[p]]
        /\ rateMu' = 0
        /\ admitted' = Append(admitted, [ip |-> ip, t |-> now[p], n |-> Len(recent[p])])
        /\ pc' = [pc EXCEPT ![p] = "score"]
        /\ UNCHANGED <<config, cfg, dbLatin, clock, req, now, recent, result, evals>>

\* lines 140-251: the penalties, the hard stops, the verdict, the log; the keys of
\* r.Form are visited in an order Go does not fix
Finish(p) ==
    /\ pc[p] = "score"
    /\ \E ord \in Orders(DOMAIN req[p].form) :
          result' = [result EXCEPT ![p] =
              Outcome(cfg, dbLatin, req[p], now[p], Len(recent[p]), ord)]
    /\ pc' = [pc EXCEPT ![p] = "done"]
    /\ UNCHANGED <<config, cfg, dbLatin, clock, rateMu, rateMap, req, now, recent, evals,
                   admitted>>

\* CheckRequest has returned; the goroutine is free for the next request
Return(p) ==
    /\ pc[p] = "done"
    /\ pc' = [pc EXCEPT ![p] = "idle"]
    /\ req' = [req EXCEPT ![p] = NoReq]
    /\ now' = [now EXCEPT ![p] = 0]
    /\ recent' = [recent EXCEPT ![p] = <<>>]
    /\ result' = [result EXCEPT ![p] = NoResult]
    /\ UNCHANGED <<config, cfg, dbLatin, clock, rateMu, rateMap, evals, admitted>>

\* one goroutine, requests of every kind
Init == InitWith(Configs)

Next ==
    \E p \in {1} :
        \/ /\ pc[p] = "idle" /\ evals < MaxEvals
           /\ \E d \in Deltas(cfg) : \E r \in Requests(clock + d, config) : Begin(p, r, d)
        \/ Acquire(p)
        \/ Release(p)
        \/ Finish(p)
        \/ Return(p)

Spec == Init /\ [][Next]_vars

\* one goroutine, one origin, many requests
InitRate == InitWith(RateConfigs)

NextRate ==
    \E p \in {1} :
        \/ /\ pc[p] = "idle" /\ evals < MaxRateEvals
           /\ \E d \in RateDeltas(cfg) : \E r \in RateRequests(clock + d) : Begin(p, r, d)
        \/ Acquire(p)
        \/ Release(p)
        \/ Finish(p)
        \/ Return(p)

SpecRate == InitRate /\ [][NextRate]_vars

\* concurrent goroutines
InitConc == InitWith(ConcConfigs)

NextConc ==
    \E p \in Procs :
        \/ /\ pc[p] = "idle" /\ evals < MaxConcEvals
           /\ \E d \in Deltas(cfg) \cup {1} : \E r \in ConcRequests(clock + d) : Begin(p, r, d)
        \/ Acquire(p)
        \/ Release(p)
        \/ Finish(p)
        \/ Return(p)

SpecConc == InitConc /\ [][NextConc]_vars

----------------------------------------------------------------------------
(* What the claims speak of *)

\* CheckRequest of goroutine p has returned
Returned(p) == pc[p] = "done"

\* the request of p is bypassed
Bypassed(p) == shouldBypass(cfg, req[p]).ok

\* the values of the decoy field in the request of p
DecoyValues(p) ==
    IF "extra_decoy" \in DOMAIN req[p].form THEN req[p].form["extra_decoy"] ELSE <<>>

\* the steps of the soft path for the request of p, its form keys visited in order ord
StepsOf(p, ord) == SoftSteps(cfg, req[p], now[p], Len(recent[p]), ord)

KeyOrders(p) == Orders(DOMAIN req[p].form)

\* the threshold the configuration handed to New asks for
EffectiveThreshold ==
    IF config.BlockThreshold # 0 THEN config.BlockThreshold ELSE DefaultBlockThreshold

----------------------------------------------------------------------------
(* C1 *)

\* C1 as stated: every request whose decoy field carries a value of length >= 1
\* is answered blocked = TRUE.
C1_AnyDecoyValueBlocks ==
    \A p \in Procs :
        Returned(p) /\ (\E i \in DOMAIN DecoyValues(p) : Len(DecoyValues(p)[i]) >= 1)
            => result[p].blocked

\* C1, amended: every request that is not bypassed and whose decoy field (its
\* first value) holds a character that is not whitespace is answered
\* blocked = TRUE, whatever its other signals are.
C1_HoneypotBlocks ==
    \A p \in Procs :
        Returned(p) /\ ~Bypassed(p)
            /\ TrimSpace(FormValue(req[p].form, "extra_decoy")) # NoText
            => result[p].blocked

\* a request with the decoy filled and every other signal perfect was blocked
C1_Witness ==
    \E p \in Procs :
        /\ Returned(p) /\ result[p].via = "hidden_field_filled" /\ result[p].blocked
        /\ \A ord \in KeyOrders(p) : ScoreAfter(StepsOf(p, ord), 11) = 0

----------------------------------------------------------------------------
(* C2 *)

\* the path of the request of p has a non-empty configured prefix
OnSkipPath(p) ==
    \E i \in DOMAIN cfg.SkipPaths :
        cfg.SkipPaths[i] # <<>> /\ HasPrefix(req[p].path, cfg.SkipPaths[i])

\* C2: a request (its form parses, the custom predicate does not match it) whose
\* path has a configured SkipPaths prefix and whose decoy field is filled is
\* bypassed: blocked = FALSE, the honeypot check is not reached, and the one log
\* record has score 0 and the single reason bypass:skip_path.
C2_SkipPathBeforeHoneypot ==
    \A p \in Procs :
        Returned(p) /\ ~req[p].formErr /\ req[p].custom # "true"
            /\ OnSkipPath(p) /\ HoneypotFilled(req[p])
            => /\ ~result[p].blocked
               /\ result[p].via = "bypass"
               /\ Len(result[p].logs) = 1
               /\ result[p].logs[1].score = 0
               /\ result[p].logs[1].reasons = <<"bypass:skip_path">>

----------------------------------------------------------------------------
(* C3 *)

\* the signals C3 lists: the decoy empty, a parseable timestamp at least 1500 ms
\* old, the token, a valid trace, a browser-like user agent, the cookie, no
\* content finding
ListedSignalsClean(p) ==
    LET r == req[p]
    IN  /\ ~r.formErr /\ ~Bypassed(p) /\ ~HoneypotFilled(r)
        /\ r.ts.kind = "num" /\ now[p] - r.ts.val >= 1500
        /\ r.jsToken = "set_by_js"
        /\ checkBehavior(r.behavior).ok
        /\ UaLowerContains(r.ua, "mozilla")
        /\ r.cookie = [has |-> TRUE, val |-> "enabled"]
        /\ \A ord \in KeyOrders(p) : analyzeFormContent(r.form, ord, getSpamKeywords).d = 0

\* the signals C3 does not list
UnlistedSignalsClean(p) ==
    LET r == req[p]
    IN  /\ Len(recent[p]) <= cfg.RateLimitMax
        /\ ~(getConfigBool(dbLatin, FALSE) /\ ~formIsLatinOnly(r))
        /\ ~\E m \in ScriptedMarkers : UaContains(r.ua, m)
        /\ r.ref # <<>> /\ (r.host = "" \/ RefContainsHost(r.ref, r.host))
        /\ (r.accept # "" \/ r.al # "")
        /\ (UaLowerContains(r.ua, "chrome") => r.sfs # "" \/ r.sfm # "")

\* C3 as stated: with the listed signals clean, whatever the others, the score
\* is 0 and the verdict is blocked = FALSE under every threshold <= 0.
C3_ListedSignalsSuffice ==
    \A p \in Procs :
        Returned(p) /\ ListedSignalsClean(p)
            => /\ result[p].score = 0
               /\ (config.BlockThreshold <= 0 => ~result[p].blocked)

\* C3, amended: when moreover the request is within the rate limit, the
\* Latin-only stop does not fire, the user agent names no headless or scripted
\* client, the referer is present and names the host, Accept or Accept-Language
\* is present and a Chrome user agent comes with a Sec-Fetch header, the score
\* is 0 and the verdict is blocked = FALSE under every threshold <= 0.
C3_CleanPasses ==
    \A p \in Procs :
        Returned(p) /\ ListedSignalsClean(p) /\ UnlistedSignalsClean(p)
            => /\ result[p].score = 0
               /\ result[p].reasons = <<>>
               /\ (config.BlockThreshold <= 0 => ~result[p].blocked)

\* a clean request, its timestamp exactly 1500 ms old, passed with score 0
C3_Witness ==
    \E p \in Procs :
        /\ Returned(p) /\ ListedSignalsClean(p) /\ UnlistedSignalsClean(p)
        /\ now[p] - req[p].ts.val = 1500
        /\ result[p].via = "soft" /\ result[p].score = 0 /\ ~result[p].blocked

----------------------------------------------------------------------------
(* C4 *)

\* the request of p went through the rate limiter
Counted(p) == Returned(p) /\ result[p].via \notin {"bypass", "malformed"}

\* the limiter ticks for origin ip, in the order of their writes
TicksOf(ip) == SelectSeq(admitted, LAMBDA e : e.ip = ip)

\* with one goroutine the last tick is that of the request of p: the ticks
\* before it
EarlierTicks(p) ==
    LET h == TicksOf(RemoteIP(req[p].remoteAddr))
    IN  SubSeq(h, 1, Len(h) - 1)

\* the number of the request of p among the requests of its origin inside the
\* window that ends at its now
WindowRank(p) ==
    LET h == EarlierTicks(p)
    IN  1 + Cardinality({j \in DOMAIN h : now[p] - h[j].t < cfg.RateLimitTTL})

Penalized(p) ==
    /\ result[p].reasons # <<>>
    /\ result[p].reasons[1] = "rate_limit_exceeded"

\* C4: for the requests of one origin, handled one after the other, request
\* number k inside the window gets the penalty (-3, rate_limit_exceeded) exactly
\* when k > RateLimitMax; a request that comes when the origin sent nothing for
\* longer than the window is counted as 1 and is not penalized.
C4_RateLimit ==
    \A p \in Procs :
        Counted(p) =>
            LET k == WindowRank(p)
                h == EarlierTicks(p)
            IN  /\ Len(recent[p]) = k
                /\ Penalized(p) <=> k > cfg.RateLimitMax
                /\ result[p].score = IF k > cfg.RateLimitMax THEN -3 ELSE 0
                /\ (\A j \in DOMAIN h : now[p] - h[j].t > cfg.RateLimitTTL)
                       => Len(recent[p]) = 1 /\ ~Penalized(p)

\* with the default limit of 5, the sixth request inside the window was penalized
C4_Witness ==
    \E p \in Procs :
        /\ Counted(p) /\ config.RateLimitMax = 0
        /\ WindowRank(p) = 6 /\ Penalized(p) /\ result[p].score = -3

----------------------------------------------------------------------------
(* C5 *)

OneWindow(h) == \A i, j \in DOMAIN h : h[i].t - h[j].t < cfg.RateLimitTTL

\* C5: when the evaluations of one origin, run concurrently, all have their
\* timestamps inside one window, the list of the origin holds one entry per
\* evaluation and the i-th to write saw the count i: the counts are 1..N.
C5_AtomicTick ==
    \A ip \in IPs :
        LET h == TicksOf(ip)
        IN  OneWindow(h) =>
                /\ Len(rateMap[ip]) = Len(h)
                /\ \A i \in DOMAIN h : h[i].n = i

\* two evaluations of one origin overlapped: the one that read the clock later
\* wrote first; both returned
C5_Witness ==
    \E p, q \in Procs :
        LET h == TicksOf(RemoteIP(req[p].remoteAddr))
        IN  /\ p # q /\ Counted(p) /\ Counted(q)
            /\ RemoteIP(req[p].remoteAddr) = RemoteIP(req[q].remoteAddr)
            /\ now[p] < now[q]
            /\ Len(h) = 2 /\ h[1].t = now[q] /\ h[2].t = now[p]
            /\ Len(recent[q]) = 1 /\ Len(recent[p]) = 2

----------------------------------------------------------------------------
(* C6 *)

\* C6: when an evaluation with timestamp now has done its prune-and-append,
\* every timestamp stored for its origin lies in [now - window, now].
C6_WindowInvariant ==
    [][\A p \in Procs :
          pc[p] = "locked" /\ pc'[p] = "score" =>
              LET stored == rateMap'[RemoteIP(req[p].remoteAddr)]
              IN  \A i \in DOMAIN stored :
                      /\ now[p] - cfg.RateLimitTTL <= stored[i]
                      /\ stored[i] <= now[p]]_vars

----------------------------------------------------------------------------
(* C7 *)

\* C7: the score starts at 0 and no step of an evaluation increases it: every
\* step changes it by at most 0, so does every check of the content analyzer,
\* and the score CheckRequest ends with is <= 0.
C7_ScoreNeverIncreases ==
    \A p \in Procs :
        Returned(p) =>
            /\ result[p].score <= 0
            /\ Counted(p) =>
                  \A ord \in KeyOrders(p) :
                      LET st == StepsOf(p, ord)
                          cs == ContentChecks(req[p].form, ord, getSpamKeywords)
                      IN  /\ ScoreAfter(st, 0) = 0
                          /\ \A k \in DOMAIN st : ScoreAfter(st, k) <= ScoreAfter(st, k - 1)
                          /\ \A i \in DOMAIN cs : cs[i].d <= 0
                          /\ analyzeFormContent(req[p].form, ord, getSpamKeywords).d <= 0

\* an evaluation lost points to the content analyzer for links in the message
C7_Witness ==
    \E p \in Procs :
        /\ Returned(p) /\ result[p].via = "soft" /\ result[p].score < 0
        /\ \E i \in DOMAIN result[p].reasons : result[p].reasons[i] = "links_in_message:3"

----------------------------------------------------------------------------
(* C8 *)

\* C8: on the soft path CheckRequest answers blocked = TRUE exactly when the
\* final score is <= the effective threshold: Config.BlockThreshold when that
\* is not zero, -5 when it is zero.
C8_ThresholdVerdict ==
    \A p \in Procs :
        Returned(p) /\ result[p].via = "soft"
            => (result[p].blocked <=> result[p].score <= EffectiveThreshold)

\* with BlockThreshold 0 a request whose score is exactly -5 was blocked
C8_Witness ==
    \E p \in Procs :
        /\ Returned(p) /\ result[p].via = "soft" /\ config.BlockThreshold = 0
        /\ result[p].score = -5 /\ result[p].blocked

----------------------------------------------------------------------------
(* C9 *)

\* a request that is not bypassed, with an empty decoy field, no timestamp, no
\* token, no behavior data and no cookie
NoScriptSignals(p) ==
    LET r == req[p]
    IN  /\ ~r.formErr /\ ~Bypassed(p)
        /\ \A i \in DOMAIN DecoyValues(p) : DecoyValues(p)[i] = NoText
        /\ r.ts.kind = "none" /\ r.jsToken = "" /\ r.behavior.kind = "empty"
        /\ ~r.cookie.has

DefaultThreshold == config.BlockThreshold \in {0, DefaultBlockThreshold}

ScriptTags == <<"missing_ts", "missing_js_token", "behavior:missing_behavior">>

HeaderTags == {"ua_suspicious", "missing_referer", "cross_site_referer",
               "headless_or_scripted_ua", "missing_accept_and_language",
               "missing_sec_fetch_headers"}

\* C9 as stated: the reason list starts with the four tags, in this order, and
\* the verdict is blocked = TRUE under the default threshold.
C9_FourReasonsFirst ==
    \A p \in Procs :
        Returned(p) /\ NoScriptSignals(p) /\ DefaultThreshold
            => /\ Len(result[p].reasons) >= 4
               /\ SubSeq(result[p].reasons, 1, 4) = Append(ScriptTags, "missing_js_cookie")
               /\ result[p].blocked

\* C9, amended: the verdict is blocked = TRUE under the default threshold, and
\* unless the Latin-only stop ends the evaluation the reason list holds the four
\* tags in this order: missing_ts, missing_js_token, behavior:missing_behavior
\* next to each other, with only rate_limit_exceeded before them, then
\* missing_js_cookie, with only user-agent, referer and header tags in between.
C9_FourReasonsInOrder ==
    \A p \in Procs :
        Returned(p) /\ NoScriptSignals(p) /\ DefaultThreshold
            => /\ result[p].blocked
               /\ result[p].via \in {"soft", "non_latin_detected"}
               /\ result[p].via = "soft" =>
                     LET rs == result[p].reasons
                         i == IF rs[1] = "rate_limit_exceeded" THEN 2 ELSE 1
                     IN  /\ Len(rs) >= i + 3
                         /\ SubSeq(rs, i, i + 2) = ScriptTags
                         /\ \E j \in (i + 3)..Len(rs) :
                               /\ rs[j] = "missing_js_cookie"
                               /\ \A m \in (i + 3)..(j - 1) : rs[m] \in HeaderTags

\* a browser request without the script got exactly the four reasons and was
\* blocked
C9_Witness ==
    \E p \in Procs :
        /\ Returned(p) /\ NoScriptSignals(p) /\ config.BlockThreshold = 0
        /\ result[p].via = "soft" /\ result[p].blocked
        /\ result[p].reasons = Append(ScriptTags, "missing_js_cookie")

----------------------------------------------------------------------------
(* C10 *)

\* C10: the outcome of an evaluation (score, reasons, verdict, log record) is
\* fixed by the request, the instant, the rate-limit state and the
\* configuration: the order in which the form keys are visited does not change
\* it.
C10_Deterministic ==
    \A p \in Procs :
        Counted(p) =>
            \A ord \in KeyOrders(p) :
                Outcome(cfg, dbLatin, req[p], now[p], Len(recent[p]), ord) = result[p]

----------------------------------------------------------------------------
(* C11 *)

\* the bypass rules after the custom predicate match the request of p
RestBypasses(p) == shouldBypass([cfg EXCEPT !.SkipIf = "nil"], req[p]).ok

\* C11: a panic of the SkipIf predicate counts as "no match" and the bypass
\* evaluation goes on: a request (its form parses) that the SkipPaths rule or the
\* GET callback heuristic matches is bypassed although the predicate panics.
C11_PanicIsNoMatch ==
    \A p \in Procs :
        Returned(p) /\ ~req[p].formErr /\ cfg.SkipIf # "nil" /\ req[p].custom = "panic"
            /\ RestBypasses(p)
            => result[p].via = "bypass" /\ ~result[p].blocked

----------------------------------------------------------------------------
(* C13 *)

\* C13: every call of CheckRequest, whatever path it returns by, has handed
\* exactly one record (origin, user agent, score, reasons) to c.log when it
\* returns.
C13_OneLogRecord ==
    \A p \in Procs :
        Returned(p) =>
            /\ Len(result[p].logs) = 1
            /\ result[p].logs[1] = LogCall(RemoteIP(req[p].remoteAddr), req[p].ua,
                                           result[p].logs[1].score, result[p].logs[1].reasons)

----------------------------------------------------------------------------
(* C16 *)

BehaviorTags ==
    {"behavior:missing_behavior", "behavior:behavior_decode_error",
     "behavior:behavior_not_enough_events", "behavior:behavior_non_monotonic_time",
     "behavior:behavior_too_short", "behavior:behavior_low_movement",
     "behavior:behavior_low_timing_variance"}

UaTags == {"ua_suspicious", "headless_or_scripted_ua"}
RefererTags == {"missing_referer", "cross_site_referer"}

\* the place of a reason tag in the order of the code; the tags of the content
\* analyzer come last
TagRank(tag) ==
    CASE tag = "rate_limit_exceeded" -> 1
      [] tag \in {"missing_ts", "too_fast_submit"} -> 2
      [] tag = "missing_js_token" -> 3
      [] tag \in BehaviorTags -> 4
      [] tag = "ua_suspicious" -> 5
      [] tag \in RefererTags -> 6
      [] tag = "headless_or_scripted_ua" -> 7
      [] tag = "missing_accept_and_language" -> 8
      [] tag = "missing_sec_fetch_headers" -> 9
      [] tag \in {"missing_js_cookie", "bad_js_cookie"} -> 10
      [] OTHER -> 11

----------------------------------------------------------------------------
(* Behavior traces: checkBehavior on a bounded set of traces, each sent in *)
(* an otherwise clean request.                                             *)

\* events in a trace
MaxTraceLen == 5

\* the time between two events: every one but the last, and the last
InnerGaps == {0, 100, 200}
LastGaps == {0, 100, 199, 200, 201}

\* the pointer moves along y = 0, from x = base, by step per event
PointerSteps == {0, 9, 10}
PointerBases == {0, 50}

\* the event that is a key press (no x, no y); 0: every event is a pointer event
KeyPlaces == {0, 2, 3}

GapSeqs(n) ==
    {g \in [1..(n - 1) -> InnerGaps \cup LastGaps] :
        \A i \in 1..(n - 2) : g[i] \in InnerGaps}

\* what gocaptcha.js records: {x, y, t} on mousemove, {key, t} on keydown
MakeTrace(n, g, step, base, k) ==
    [kind |-> "events",
     events |-> [i \in 1..n |->
                    [x |-> IF i = k THEN 0 ELSE base + step * (i - 1), y |-> 0,
                     t |-> 1000 + SumSeq(SubSeq(g, 1, i - 1)), pos |-> i # k]]]

BehaviorTraces ==
    {NoTrace, [kind |-> "badb64", events |-> <<>>], [kind |-> "badjson", events |-> <<>>]}
    \cup {MakeTrace(Len(g) + 1, g, step, base, k) :
            g \in UNION {GapSeqs(n) : n \in {MinEvents - 1} \cup (MinEvents..MaxTraceLen)},
            step \in PointerSteps, base \in PointerBases, k \in KeyPlaces}

BehaviorRequests(t) == {[CleanRequest(t) EXCEPT !.behavior = b] : b \in BehaviorTraces}

InitBehavior == InitWith({BaseConfig})

\* one goroutine, one request
NextBehavior ==
    \E p \in {1} :
        \/ /\ pc[p] = "idle" /\ evals = 0
           /\ \E r \in BehaviorRequests(clock) : Begin(p, r, 0)
        \/ Acquire(p)
        \/ Release(p)
        \/ Finish(p)
        \/ Return(p)

SpecBehavior == InitBehavior /\ [][NextBehavior]_vars

----------------------------------------------------------------------------
(* C12 *)

\* the decoded events of the trace in the request of p
EventsOf(p) == [i \in DOMAIN req[p].behavior.events |-> DecodeEvent(req[p].behavior.events[i])]

\* the gaps between the timestamps of consecutive events
GapsOf(ev) == [i \in 1..(Len(ev) - 1) |-> ev[i + 1].T - ev[i].T]

NonMonotonic(ev) == \E i \in DOMAIN GapsOf(ev) : GapsOf(ev)[i] <= 0

Duration(ev) == ev[Len(ev)].T - ev[1].T

\* the population standard deviation of the gaps is below 10:
\* m * sum(g^2) - sum(g)^2 < 10^2 * m^2 for the m gaps g
LowVariance(ev) ==
    LET g == GapsOf(ev)
        m == Len(g)
    IN  m * SumSeq([i \in DOMAIN g |-> g[i] * g[i]]) - SumSeq(g) * SumSeq(g)
            < MinTimingStd * MinTimingStd * m * m

\* the tag of the first check of the list of C12 that fails on the trace of p;
\* "" when none fails
FirstFailure(p) ==
    LET b == req[p].behavior
        ev == EventsOf(p)
    IN  IF b.kind = "empty" THEN "missing_behavior"
        ELSE IF b.kind = "badb64" THEN "behavior_decode_error"
        ELSE IF b.kind = "badjson" \/ Len(ev) < 5 THEN "behavior_not_enough_events"
        ELSE IF NonMonotonic(ev) THEN "behavior_non_monotonic_time"
        ELSE IF Duration(ev) < MinDuration THEN "behavior_too_short"
        ELSE IF TotalDist(ev) < MinMovement THEN "behavior_low_movement"
        ELSE IF LowVariance(ev) THEN "behavior_low_timing_variance"
        ELSE ""

\* C12: checkBehavior answers ok exactly when no check fails, and otherwise the
\* tag of the first failing check in the order: empty input, base64, JSON or
\* fewer than 5 events, timestamps not increasing, duration, movement, timing
\* variance; CheckRequest then takes 3 points and appends "behavior:" and the
\* tag (the requests here are clean but for the trace).
C12_FirstFailingCheck ==
    \A p \in Procs :
        Returned(p) =>
            LET tag == FirstFailure(p)
                out == checkBehavior(req[p].behavior)
            IN  /\ out.ok <=> tag = ""
                /\ out.why = tag
                /\ result[p].score = IF tag = "" THEN 0 ELSE -3
                /\ result[p].reasons = IF tag = "" THEN <<>> ELSE <<"behavior:" \o tag>>

\* a trace whose timestamps do not increase and whose duration is short was
\* answered with the earlier of the two tags
C12_Witness ==
    \E p \in Procs :
        /\ Returned(p) /\ req[p].behavior.kind = "events" /\ Len(EventsOf(p)) >= 5
        /\ NonMonotonic(EventsOf(p)) /\ Duration(EventsOf(p)) < MinDuration
        /\ TotalDist(EventsOf(p)) < MinMovement
        /\ result[p].reasons = <<"behavior:behavior_non_monotonic_time">>
        /\ result[p].score = -3

----------------------------------------------------------------------------
(* C17 *)

\* C17: a trace of at least 5 events with strictly increasing timestamps is
\* answered behavior_too_short unless its duration strictly exceeds 600.
C17_DurationMustExceed ==
    \A p \in Procs :
        Returned(p) /\ req[p].behavior.kind = "events" /\ Len(EventsOf(p)) >= 5
            /\ ~NonMonotonic(EventsOf(p)) /\ Duration(EventsOf(p)) <= 600
            => /\ checkBehavior(req[p].behavior) = [ok |-> FALSE, why |-> "behavior_too_short"]
               /\ result[p].reasons = <<"behavior:behavior_too_short">>

----------------------------------------------------------------------------
(* C18 *)

\* the sequence s without its k-th element
Without(s, k) == SubSeq(s, 1, k - 1) \o SubSeq(s, k + 1, Len(s))

\* C18: a key or click event between two pointer events adds no movement: the
\* cumulative distance checkBehavior computes for the trace is the one it
\* computes for the trace without that event.
C18_KeyEventsAddNoMovement ==
    \A p \in Procs :
        Returned(p) /\ req[p].behavior.kind = "events" =>
            \A k \in 2..(Len(EventsOf(p)) - 1) :
                ~req[p].behavior.events[k].pos
                    => TotalDist(EventsOf(p)) = TotalDist(Without(EventsOf(p), k))

----------------------------------------------------------------------------
(* Form contents: analyzeFormContent on a bounded set of forms, each sent  *)
(* in an otherwise clean request.                                          *)

\* URLs in a message
MaxUrls == 4

EmojiCounts == {4, 5, 11, 12}

UrlAt(i) ==
    CASE i % 3 = 1 -> "www.c.example"
      [] i % 3 = 2 -> "http://a.example"
      [] OTHER -> "https://b.example"

\* n emoji, each after a blank
RECURSIVE Emojis(_)
Emojis(n) == IF n = 0 THEN <<>> ELSE <<" ", "emoji">> \o Emojis(n - 1)

\* a message: some words or none, u URLs, the first k of two keywords, e emoji,
\* a run of punctuation or none
BuildMessage(long, u, k, e, punct) ==
    (IF long THEN <<"hello", " ", "there", " ", "friend">> ELSE <<>>)
    \o Flatten([i \in 1..u |-> <<" ", UrlAt(i)>>])
    \o SubSeq(<<" ", "CASINO", " ", "bitcoin">>, 1, 2 * k)
    \o Emojis(e)
    \o (IF punct = "" THEN <<>> ELSE <<" ", punct>>)

Messages ==
    {BuildMessage(long, u, k, e, punct) :
        long \in BOOLEAN, u \in 0..MaxUrls, k \in 0..2, e \in EmojiCounts,
        punct \in {"", "!!!!!", "!!!!"}}

\* a form field with one value, or no field when the value is "absent"
Field(key, v) == IF v = "absent" THEN NoForm ELSE (key :> <<v>>)

ContentForms ==
    {Field("message", m) @@ Field("name", n) @@ Field("email", e) @@ Field("website", w) :
        m \in Messages,
        n \in {"absent", <<"Bob">>, <<"http://a.example">>},
        e \in {"absent", <<"bob@example.com">>, <<"bob@example">>},
        w \in {"absent", <<"www.c.example">>, <<"x">>}}

ContentRequests(t) == {[CleanRequest(t) EXCEPT !.form = f] : f \in ContentForms}

InitContent == InitWith({BaseConfig})

\* one goroutine, one request
NextContent ==
    \E p \in {1} :
        \/ /\ pc[p] = "idle" /\ evals = 0
           /\ \E r \in ContentRequests(clock) : Begin(p, r, 0)
        \/ Acquire(p)
        \/ Release(p)
        \/ Finish(p)
        \/ Return(p)

SpecContent == InitContent /\ [][NextContent]_vars

----------------------------------------------------------------------------
(* C14 *)

\* the fields of the form of p, each sent under one key
MessageOf(p) == TrimSpace(FormValue(req[p].form, "message"))
NameOf(p) == TrimSpace(FormValue(req[p].form, "name"))
EmailOf(p) == TrimSpace(FormValue(req[p].form, "email"))
WebsiteOf(p) == TrimSpace(FormValue(req[p].form, "website"))

When(cond, d, tag) == IF cond THEN [d |-> d, rs |-> <<tag>>] ELSE [d |-> 0, rs |-> <<>>]

\* the penalties C14 lists, each decided on its own, in the order of the checks
ListedPenalties(p) ==
    LET n == Len(FindAllUrls(MessageOf(p)))
        e == EmojiCount(MessageOf(p))
    IN  << When(n > 0, CASE n = 1 -> -2 [] n = 2 -> -3 [] OTHER -> -4,
                "links_in_message:" \o ToString(n)),
           When(MatchKeywords(MessageOf(p), defaultKeywords), -3, "spam_keywords"),
           When(e >= 5, IF e >= 12 THEN -2 ELSE -1, "emoji_overuse:" \o ToString(e)),
           When(hasRepeatedPunct(MessageOf(p)), -1, "repeated_punct"),
           When(NameOf(p) # NoText /\ MatchUrl(NameOf(p)), -2, "name_contains_url"),
           When(WebsiteOf(p) # NoText /\ ~MatchUrl(WebsiteOf(p)), -1, "website_invalid"),
           When(EmailOf(p) # NoText /\ ~MatchEmail(EmailOf(p)), -1, "email_invalid"),
           When(RuneCount(MessageOf(p)) < 15 /\ n > 0, -1, "short_msg_with_link") >>

\* C14: the delta of analyzeFormContent is the sum of the penalties, none
\* excluding another: -2, -3, -4 for 1, 2, 3 or more URLs in the message, a flat
\* -3 for any keyword, -1 for an invalid e-mail, and the penalty of each other
\* check (emoji: -1 from 5, -2 from 12; repeated punctuation -1; URL in the name
\* -2; website that is no URL -1; short message with a link -1); the reasons are
\* appended in the order of the checks (the requests here are clean but for the
\* form).
C14_PenaltiesAccumulate ==
    \A p \in Procs :
        Returned(p) =>
            LET ps == ListedPenalties(p)
                d == SumSeq([i \in DOMAIN ps |-> ps[i].d])
                rs == Flatten([i \in DOMAIN ps |-> ps[i].rs])
            IN  /\ \A ord \in KeyOrders(p) :
                       analyzeFormContent(req[p].form, ord, getSpamKeywords) = [d |-> d, rs |-> rs]
                /\ result[p].score = d
                /\ result[p].reasons = rs

\* a message with four URLs, two keywords and twelve emoji, sent with an invalid
\* e-mail address: -4, -3, -2 and -1 add up
C14_Witness ==
    \E p \in Procs :
        /\ Returned(p) /\ result[p].score = -10
        /\ result[p].reasons = <<"links_in_message:4", "spam_keywords", "emoji_overuse:12",
                                 "email_invalid">>

----------------------------------------------------------------------------
(* C20 *)

\* lines 412-418, statement by statement: the decrement at 5 emoji appends the
\* tag, the further decrement at 12 appends nothing
EmojiDecrements(n) ==
    << IF n >= 5 THEN [d |-> -1, rs |-> <<"emoji_overuse:" \o Itoa(n)>>] ELSE NoFinding,
       IF n >= 12 THEN [d |-> -1, rs |-> <<>>] ELSE NoFinding >>

\* every decrement of the soft path of p with the reasons appended with it: the
\* ten steps before the content analyzer, then the decrements of the analyzer
DecrementsOf(p, ord) ==
    LET cs == ContentChecks(req[p].form, ord, getSpamKeywords)
        fields == CollectFields(EmptyFields, req[p].form, ord)
    IN  SubSeq(StepsOf(p, ord), 1, 10) \o SubSeq(cs, 1, 2)
        \o EmojiDecrements(EmojiCount(TrimSpace(fields.message))) \o SubSeq(cs, 4, 8)

\* C20: on the soft path every decrement of the score appends at least one
\* reason tag with it, and a score below 0 comes with a reason list that is not
\* empty.
C20_EveryDecrementHasReason ==
    \A p \in Procs :
        Returned(p) /\ result[p].via = "soft" =>
            /\ result[p].score < 0 => result[p].reasons # <<>>
            /\ \A ord \in KeyOrders(p) :
                  LET ds == DecrementsOf(p, ord)
                  IN  /\ SumSeq([i \in DOMAIN ds |-> ds[i].d])
                            = ScoreAfter(StepsOf(p, ord), 11)
                      /\ \A i \in DOMAIN ds : ds[i].d < 0 => ds[i].rs # <<>>

----------------------------------------------------------------------------
(* C19 *)

\* C19: on each access exactly the entries with t < now - window are dropped:
\* the count of the request of p is 1 (its own entry) plus the number of earlier
\* ticks of its origin with t >= now - window, an entry with t = now - window
\* included (requests of one origin, one after the other).
C19_BoundaryEntryRetained ==
    \A p \in Procs :
        Counted(p) =>
            LET h == EarlierTicks(p)
            IN  Len(recent[p]) =
                    1 + Cardinality({j \in DOMAIN h : h[j].t >= now[p] - cfg.RateLimitTTL})

----------------------------------------------------------------------------
(* C15 *)

\* malformed inputs of every kind, and a plain request, all of one origin
LiveRequests(t) ==
    {ThinRequest(t, "a"),
     [ThinRequest(t, "a") EXCEPT !.formErr = TRUE],
     [ThinRequest(t, "a") EXCEPT !.behavior = [kind |-> "badb64", events |-> <<>>]],
     [ThinRequest(t, "a") EXCEPT !.behavior = [kind |-> "badjson", events |-> <<>>]],
     [ThinRequest(t, "a") EXCEPT !.ts = [kind |-> "garbage", val |-> 0]],
     [ThinRequest(t, "a") EXCEPT !.custom = "panic"]}

NextLive ==
    \E p \in Procs :
        \/ /\ pc[p] = "idle" /\ evals < MaxConcEvals
           /\ \E r \in LiveRequests(clock) : Begin(p, r, 0)
        \/ Acquire(p)
        \/ Release(p)
        \/ Finish(p)
        \/ Return(p)

\* goroutine p moves from one position of CheckRequest to the next; from "lock"
\* this is Acquire(p), from "locked" Release(p), from "score" Finish(p), the only
\* actions that change pc[p] there
Moves(p, from, to) == pc[p] = from /\ pc' = [pc EXCEPT ![p] = to]

\* the Go scheduler runs every runnable goroutine (weak fairness of the steps
\* that need no lock), and sync.Mutex hands the lock to a goroutine that keeps
\* waiting for it (starvation mode: strong fairness of Lock)
SpecLive ==
    /\ InitConc
    /\ [][NextLive]_vars
    /\ \A p \in Procs :
          /\ SF_pc(MayLock(p) /\ Moves(p, "lock", "locked"))
          /\ WF_pc(Moves(p, "locked", "score"))
          /\ WF_pc(Moves(p, "score", "done"))

\* C15: every call of CheckRequest, on whatever input, comes to its return with
\* a boolean verdict, and does not hold the rate-limiter lock once it is past
\* the limiter; concurrent calls do not block one another for ever.
C15_AlwaysReturns ==
    /\ [](\A p \in Procs :
             /\ pc[p] \in {"score", "done"} => rateMu # p
             /\ Returned(p) => result[p].blocked \in BOOLEAN)
    /\ \A p \in Procs : (pc[p] # "idle") ~> Returned(p)

\* two concurrent calls on malformed inputs have both returned, the lock is free
C15_Witness ==
    \E p, q \in Procs :
        /\ p # q /\ Returned(p) /\ Returned(q) /\ rateMu = 0
        /\ req[p].custom = "panic" /\ Counted(p)
        /\ req[q].behavior.kind = "badb64" /\ Counted(q)

----------------------------------------------------------------------------
(* C21 *)

\* the custom predicate is set and returns true on r, or does not
PredicateMatches(c, r) == c.SkipIf # "nil" /\ r.custom = "true"

\* r.URL.Path starts with a non-empty prefix of SkipPaths
PrefixMatches(c, r) ==
    \E i \in DOMAIN c.SkipPaths :
        c.SkipPaths[i] # <<>> /\ HasPrefix(r.path, c.SkipPaths[i])

\* the reason the identity-provider heuristic gives for r, "" when it gives none
HeuristicReason(r) ==
    LET code == TrimSpace(r.code) # NoText
        state == TrimSpace(r.state) # NoText
    IN  IF r.method # "GET" THEN ""
        ELSE IF code /\ state THEN "bypass:oauth_flow"
        ELSE IF PathHasOAuthMarker(r.path) /\ (code \/ state) THEN "bypass:oauth_flow"
        ELSE IF RefHasProvider(r.ref) THEN "bypass:oauth_referer"
        ELSE ""

\* the first rule that matches r, in the order predicate, prefix, heuristic
FirstMatchingRule(c, r) ==
    IF PredicateMatches(c, r) THEN "bypass:custom"
    ELSE IF PrefixMatches(c, r) THEN "bypass:skip_path"
    ELSE HeuristicReason(r)

\* C21: shouldBypass returns the first matching rule in the order custom
\* predicate, non-empty SkipPaths prefix, identity-provider heuristic (GET
\* only); it returns no bypass exactly when no rule matches, so a request that
\* is not a GET and matches neither the predicate nor a prefix is not bypassed.
C21_FirstMatchingRule ==
    \A p \in Procs :
        Returned(p) /\ ~req[p].formErr =>
            LET by == shouldBypass(cfg, req[p])
                rule == FirstMatchingRule(cfg, req[p])
            IN  /\ by.ok = (rule # "")
                /\ by.why = rule
                /\ (result[p].via = "bypass") = (rule # "")
                /\ rule # "" => result[p].logs[1].reasons = <<rule>>

----------------------------------------------------------------------------
(* C22 *)

\* C22: Latin-only enforcement is on by default: with an engine built without
\* storage (no configuration table to read), a request that is not bypassed,
\* whose form parses, whose decoy field is empty and one of whose other form
\* fields has a letter outside the Latin script is hard-blocked with the reason
\* non_latin_detected, before any soft check runs.
C22_LatinOnlyByDefault ==
    \A p \in Procs :
        Returned(p) /\ ~config.EnableStorage /\ ~req[p].formErr /\ ~Bypassed(p)
            /\ ~HoneypotFilled(req[p]) /\ ~formIsLatinOnly(req[p])
            => /\ result[p].blocked
               /\ result[p].via = "non_latin_detected"
               /\ result[p].reasons[Len(result[p].reasons)] = "non_latin_detected"

----------------------------------------------------------------------------
(* C23 *)

MaxFrameEvals == 2

\* storage enabled: the Latin-only switch is read from the configuration table
FrameConfigs == {[BaseConfig EXCEPT !.RateLimitMax = 2, !.EnableStorage = TRUE]}

\* one request for each way CheckRequest can end, from two origins: scored
\* (a), bypassed by a skip path (a), unparseable (b), decoy filled (a),
\* non-Latin message (b; scored when the switch is off)
FrameRequests(t) ==
    {ThinRequest(t, "a")}
    \cup {[ThinRequest(t, "a") EXCEPT !.path = <<"/skip", "/x">>],
          [ThinRequest(t, "b") EXCEPT !.formErr = TRUE],
          [ThinRequest(t, "a") EXCEPT !.form = ("extra_decoy" :> << <<"x">> >>) @@ @],
          [ThinRequest(t, "b") EXCEPT
               !.form = ("message" :> << <<"hello", " ", "cyrillic", " ", "friend">> >>)]}

InitFrame == InitWith(FrameConfigs)

NextFrame ==
    \E p \in Procs :
        \/ /\ pc[p] = "idle" /\ evals < MaxFrameEvals
           /\ \E d \in Deltas(cfg) : \E r \in FrameRequests(clock + d) : Begin(p, r, d)
        \/ Acquire(p)
        \/ Release(p)
        \/ Finish(p)
        \/ Return(p)

SpecFrame == InitFrame /\ [][NextFrame]_vars

\* goroutine p stores its list (line 138) in this step
Stores(p) == pc[p] = "locked" /\ pc'[p] = "score"

\* the entries of hits that are younger than ttl at time t
Younger(hits, t, ttl) == SelectSeq(hits, LAMBDA h : t - h < ttl)

\* C23: an evaluation that is bypassed or whose form body cannot be parsed
\* returns without a step that changes the rate-limit map; every other
\* evaluation, the ones ended by the honeypot or the Latin-only stop included,
\* makes exactly one such step between its start and its return, which appends
\* its one timestamp to the (pruned) list of its own origin and leaves the lists
\* of all other origins as they were.
C23_RateStateFrame ==
    [][\A p \in Procs :
          LET ip == RemoteIP(req[p].remoteAddr)
          IN  /\ Stores(p) =>
                    /\ rateMap'[ip] =
                           Append(Younger(rateMap[ip], now[p], cfg.RateLimitTTL), now[p])
                    /\ \A o \in IPs \ {ip} : rateMap'[o] = rateMap[o]
              /\ (\A q \in Procs : ~Stores(q)) => rateMap' = rateMap
              /\ pc[p] = "idle" /\ pc'[p] # "idle" =>
                    (pc'[p] = "done") = (req'[p].formErr \/ shouldBypass(cfg, req'[p]).ok)
              /\ pc[p] # "done" /\ pc'[p] = "done" =>
                    \/ pc[p] = "idle"
                    \/ pc[p] = "score" /\ result'[p].via \in
                           {"hidden_field_filled", "non_latin_detected", "soft"}
              /\ pc[p] # "score" /\ pc'[p] = "score" => pc[p] = "locked"
              /\ pc[p] = "locked" => pc'[p] \in {"locked", "score"}
      ]_vars

\* an evaluation from a ended by the honeypot stop has returned, its timestamp
\* the last of a's list, while b's list holds the timestamp of another
\* evaluation
C23_Witness ==
    \E p \in Procs :
        /\ Returned(p) /\ result[p].via = "hidden_field_filled"
        /\ rateMap["a"] # <<>> /\ rateMap["a"][Len(rateMap["a"])] = now[p]
        /\ rateMap["b"] # <<>>

----------------------------------------------------------------------------
(* C24 *)

\* the rows the spamOnly filter of TopIPs selects: score <= c.threshold()
SpamOnly(rows) == SelectSeq(rows, LAMBDA row : row.score <= threshold(cfg))

\* C24: the record of an evaluation that returns blocked = TRUE has a score at
\* or below the effective threshold, and the record of one that returns
\* blocked = FALSE a score above it: the spamOnly filter (score <= threshold)
\* selects the records of the blocked evaluations and no others, those of the
\* honeypot and Latin-only hard stops included.
C24_SpamOnlySelectsBlocked ==
    \A p \in Procs :
        Returned(p) /\ result[p].logs # <<>> =>
            (SpamOnly(result[p].logs) = result[p].logs) = result[p].blocked

----------------------------------------------------------------------------
(* C25 *)

\* the number of times tag occurs in the reason list rs
Occurrences(rs, tag) == Cardinality({i \in DOMAIN rs : rs[i] = tag})

\* C25: a request with an empty User-Agent that is scored to the end (not
\* bypassed, its form parsed, no hard stop) gets both ua_suspicious (-2) and
\* headless_or_scripted_ua (-4), once each; its final score is at most -6, and
\* under the default threshold -5 it is blocked, whatever its other signals.
C25_EmptyUaBlocked ==
    \A p \in Procs :
        Returned(p) /\ result[p].via = "soft" /\ req[p].ua = <<>> =>
            /\ Occurrences(result[p].reasons, "ua_suspicious") = 1
            /\ Occurrences(result[p].reasons, "headless_or_scripted_ua") = 1
            /\ result[p].score <= -6
            /\ result[p].logs[1].score = result[p].score
            /\ threshold(cfg) = DefaultBlockThreshold => result[p].blocked

\* a browser-like request whose only flaw is the empty User-Agent has been
\* scored -6 and blocked under the default threshold
C25_Witness ==
    \E p \in Procs :
        /\ Returned(p) /\ result[p].via = "soft" /\ req[p].ua = <<>>
        /\ config.BlockThreshold = 0
        /\ result[p].reasons = <<"ua_suspicious", "headless_or_scripted_ua">>
        /\ result[p].score = -6 /\ result[p].blocked

====
